---- MODULE Spec2Model ----
(***************************************************************************)
(* A model of gocommerce's price calculator (calculator/calculator.go) and *)
(* of its order-creation handler (api: OrderCreate, createLineItems,       *)
(* processAddress, setUserIDFromToken).                                    *)
(*                                                                         *)
(* Conventions.                                                            *)
(*  - A Go nil pointer / nil interface / nil map is a record whose field   *)
(*    `nil` is TRUE.  A nil slice and an empty slice are both << >> (the   *)
(*    code only ever tests `x != nil && len(x) > 0` or ranges over them).  *)
(*  - A uint64 is represented by an integer congruent to it modulo 2^64    *)
(*    and small in magnitude: a representative v >= 0 is the value v, a    *)
(*    representative v < 0 is the value 2^64 + v (a wrapped-around, huge   *)
(*    value).  +, - and * on representatives are + , - and * modulo 2^64;  *)
(*    only comparisons need the case split (U64Less).                      *)
(*  - A float64 is represented by the exact rational n/d the expression    *)
(*    approximates together with the sign e of its accumulated rounding    *)
(*    error, computed wherever the sign can change what rint returns (that *)
(*    is, where n/d is a multiple of 1/2).                                 *)
(***************************************************************************)
EXTENDS Integers, Sequences, FiniteSets, TLC

VARIABLES
    \* ---- calculator.CalculatePrice: parameters, locals and result
    settings, jwtClaims, country, currency, coupon, items,
    price,        \* the Price being built (calculator.go:154)
    taxAmounts,   \* the taxAmounts local of the latest iteration (calculator.go:160)
    idx,          \* number of items the range loop has consumed
    calcPc,       \* "idle" | "loop" | "returned"
    \* ---- calculator.calculateDiscount called on its own
    dargs, dret,
    \* ---- api.OrderCreate and what it calls
    pc,           \* where the handler is
    tx,           \* the gorm transaction: begun, and how often it was finished
    resp,         \* the response sent: its status code and the error it reports
    nItems,       \* len(params.LineItems)
    started,      \* line items the loop of createLineItems has started a worker for
    persisted,    \* line items the second loop of createLineItems has persisted
    sem,          \* number of values in the channel sem
    wg,           \* the counter of the WaitGroup
    sharedErr,    \* sharedErr.err: 0 is nil, w is the error of worker w
    mutex,        \* sharedErr.mutex: 0 is unlocked, w is held by worker w
    wpc,          \* where each worker goroutine is
    recorded,     \* the workers that have written sharedErr.err
    released      \* the workers in the order of their receives from sem

calcVars == <<settings, jwtClaims, country, currency, coupon, items,
              price, taxAmounts, idx, calcPc>>
discVars == <<dargs, dret>>
orderVars == <<pc, tx, resp, nItems, started, persisted, sem, wg, sharedErr, mutex, wpc, recorded, released>>
vars == <<calcVars, discVars, orderVars>>

----------------------------------------------------------------------------
(* Bounds of the model                                                     *)

MaxItems == 2
MaxQuantity == 2
MaxPrice == 70
MaxTaxPercentage == 250
MaxBase == 12
MaxTaxes == 2
MaxFixed == 3
MaxLineItems == 3
\* the capacity of sem; the constant is declared outside the files modelled
MaxConcurrentLookups == 2

(* float64 has 52 explicitly stored mantissa bits.                         *)
MantissaBits == 52

----------------------------------------------------------------------------
(* uint64 and float64 arithmetic                                           *)

\* a < b on uint64 values given by their representatives
U64Less(a, b) == IF (a < 0) = (b < 0) THEN a < b ELSE b < 0

Sign(x) == IF x > 0 THEN 1 ELSE IF x < 0 THEN -1 ELSE 0

RECURSIVE ScaleDividend(_, _)
ScaleDividend(a, b) == IF a < b THEN ScaleDividend(2 * a, b) ELSE a

RECURSIVE ScaleDivisor(_, _)
ScaleDivisor(a, b) == IF a >= 2 * b THEN ScaleDivisor(a, 2 * b) ELSE b

\* The remainder left after k more quotient bits of the binary long division
\* r / b (0 <= r < b), and the last bit produced.
RECURSIVE DivBits(_, _, _, _)
DivBits(r, b, last, k) ==
    IF k = 0 THEN [r |-> r, last |-> last]
    ELSE IF 2 * r >= b THEN DivBits(2 * r - b, b, 1, k - 1)
         ELSE DivBits(2 * r, b, 0, k - 1)

\* Whether 100 times a division error of rho/b ulp (upwards iff up) moves the
\* product off 100p/d, and which way.  a/b in [1, 2) is the significand of
\* p/d: the spacing of float64s at 100p/d is 2^6 ulp when 100a/b < 128 and 2^7
\* ulp otherwise, and half of that just below a power of two (100a/b = 128).
ProductErrSign(a, b, rho, up) ==
    IF (IF ~up /\ 25 * a = 32 * b THEN 400 * rho ELSE 200 * rho)
         > b * (IF 100 * a < 128 * b THEN 64 ELSE 128)
    THEN (IF up THEN 1 ELSE -1)
    ELSE 0

\* q is what is left of the long division a/b after the 53 quotient bits: the
\* quotient is rounded up iff the rest exceeds half an ulp (ties to even)
QuotientErrSign(a, b, q) ==
    IF 2 * q.r > b \/ (2 * q.r = b /\ q.last = 1)
    THEN ProductErrSign(a, b, b - q.r, TRUE)
    ELSE ProductErrSign(a, b, q.r, FALSE)

ScaledErrSign(a, b) == QuotientErrSign(a, b, DivBits(a - b, b, 1, MantissaBits))

\* The sign of  fl(fl(p / d) * 100) - 100p/d  for integers p >= 0, d > 0 with
\* 100p/d a multiple of 1/2 (so 100p/d itself is a float64), under IEEE-754
\* round-to-nearest-even.  With p/d = (m + r/b) * ulp after the 53 quotient
\* bits m, the division errs by +(b-r)/b ulp (rounded up) or -r/b ulp; the
\* product by 100 moves to the result only if 100 times that error exceeds
\* half the spacing of float64s at 100p/d.
DivMulErrSign(p, d) ==
    IF p = 0 THEN 0
    ELSE ScaledErrSign(ScaleDividend(p, d), ScaleDivisor(ScaleDividend(p, d), d))

\* float64(p) / (100 + float64(t)) * 100 with d = 100 + t     (calculator.go:189)
F64DivMul100(p, d) ==
    [n |-> 100 * p, d |-> d,
     e |-> IF (200 * p) % d = 0 THEN DivMulErrSign(p, d) ELSE 0]

\* float64(a) * float64(b) / 100: the product is exact and the one division is
\* correctly rounded, so a multiple of 1/2 is computed exactly
\* (calculator.go:192, 230)
F64MulDiv100(a, b) == [n |-> a * b, d |-> 100, e |-> 0]

\* math.Modf of a non-negative float64 whose exact part n/d has quotient q and
\* remainder r: the integer part v and how the fractional part compares with
\* 0.5 (half: -1 below, 0 equal, 1 above)
ModfOf(q, r, d, e) ==
    IF r = 0
    THEN IF e < 0 /\ q > 0 THEN [v |-> q - 1, half |-> 1]
                           ELSE [v |-> q, half |-> -1]
    ELSE [v |-> q,
          half |-> IF 2 * r > d THEN 1 ELSE IF 2 * r < d THEN -1 ELSE Sign(e)]

Modf(x) == ModfOf(x.n \div x.d, x.n % x.d, x.d, x.e)

\* rint as round-half-up: the naive rounding the gist in the comment replaces
RoundUpFrom(m) == IF m.half >= 0 THEN m.v + 1 ELSE m.v
rintHalfUp(x) == RoundUpFrom(Modf(x))

\* the rounding step of rint on the parts m that math.Modf returned
RoundFrom(m, positive) ==
    IF positive
    THEN IF m.half > 0 \/ (m.half = 0 /\ m.v % 2 # 0) THEN m.v + 1 ELSE m.v
    ELSE m.v

\* rint (calculator.go:242-255).  Every argument in the program is computed
\* from uint64 values, so x >= 0; for x = 0 the else branch leaves v = 0.
rint(x) == RoundFrom(Modf(x), x.n > 0)

----------------------------------------------------------------------------
(* calculator.go: settings, taxes, member discounts                        *)

RECURSIVE Pow10(_)
Pow10(k) == IF k = 0 THEN 1 ELSE 10 * Pow10(k - 1)

Digits == <<"0", "1", "2", "3", "4", "5", "6", "7", "8", "9">>
IsDigit(c) == \E i \in 1..10 : Digits[i] = c
DigitValue(c) == (CHOOSE i \in 1..10 : Digits[i] = c) - 1

RECURSIVE DecimalValue(_, _)
DecimalValue(s, n) ==
    IF n = 0 THEN 0 ELSE 10 * DecimalValue(s, n - 1) + DigitValue(s[n])

\* strconv.ParseFloat(s, 64) followed by `* 100` on an amount given as a
\* sequence of characters: digits with at most one '.', at most two of them
\* after it.  Anything else fails to parse here and yields amount 0, as the
\* discarded error of calculator.go:115 does.
AmountTimes100(s) ==
    LET dots == {i \in 1..Len(s) : s[i] = "."}
        wellFormed == /\ Len(s) > 0
                      /\ \A i \in 1..Len(s) : IsDigit(s[i]) \/ s[i] = "."
                      /\ Cardinality(dots) <= 1
                      /\ \E i \in 1..Len(s) : IsDigit(s[i])
        digits == SelectSeq(s, IsDigit)
        scale == IF dots = {} THEN 0 ELSE Len(s) - (CHOOSE i \in dots : TRUE)
    IN  IF wellFormed
        THEN [n |-> 100 * DecimalValue(digits, Len(digits)), d |-> Pow10(scale), e |-> 0]
        ELSE [n |-> 0, d |-> 1, e |-> 0]

Contains(list, x) == \E i \in 1..Len(list) : list[i] = x

\* a member discount that ignores its product-type allow-list
ValidForAnyType(d, productType) == TRUE

\* MemberDiscount.ValidForType (calculator.go:66-76)
ValidForType(d, productType) ==
    IF Len(d.ProductTypes) = 0 THEN TRUE ELSE Contains(d.ProductTypes, productType)

RECURSIVE FirstWithCurrency(_, _, _)
FirstWithCurrency(fixed, i, cur) ==
    IF i > Len(fixed) THEN 0
    ELSE IF fixed[i].Currency = cur THEN i
    ELSE FirstWithCurrency(fixed, i + 1, cur)

\* MemberDiscount.FixedDiscount (calculator.go:111-122)
FixedDiscount(d, cur) ==
    LET i == FirstWithCurrency(d.FixedAmount, 1, cur)
    IN  IF i = 0 THEN 0 ELSE rint(AmountTimes100(d.FixedAmount[i].Amount))

\* a tax rule that looks at the product type only
AppliesToTypeOnly(t, ctry, productType) ==
    IF Len(t.ProductTypes) > 0 THEN Contains(t.ProductTypes, productType) ELSE TRUE

\* Tax.AppliesTo (calculator.go:125-149)
AppliesTo(t, ctry, productType) ==
    LET typeApplies == IF Len(t.ProductTypes) > 0
                       THEN Contains(t.ProductTypes, productType) ELSE TRUE
    IN  IF ~typeApplies THEN FALSE
        ELSE IF Len(t.Countries) > 0 THEN Contains(t.Countries, ctry) ELSE TRUE

\* `for _, t := range settings.Taxes { if t.AppliesTo(..) { ..; break } }`:
\* the index of the first rule from i on that applies, 0 if none
\* (calculator.go:166-171, 175-180)
RECURSIVE FirstApplicable(_, _, _, _)
FirstApplicable(taxes, i, ctry, productType) ==
    IF i > Len(taxes) THEN 0
    ELSE IF AppliesTo(taxes[i], ctry, productType) THEN i
    ELSE FirstApplicable(taxes, i + 1, ctry, productType)

\* claims.HasClaims(jwtClaims, discount.Claims): every required claim is among
\* the user's claims with the required value.  Maps are sets of <<name, value>>.
HasClaims(userClaims, required) == \A kv \in required : kv \in userClaims

\* taxAmounts with the fixed-VAT branch guarded by settings != nil as well
TaxAmountsNilGuarded(s, ctry, item) ==
    IF s.nil THEN << >>
    ELSE IF item.FixedVAT # 0
    THEN << [price |-> item.Price, percentage |-> item.FixedVAT] >>
    ELSE IF Len(item.TaxableItems) > 0
    THEN [k \in 1..Len(item.TaxableItems) |->
            LET sub == item.TaxableItems[k]
                i == FirstApplicable(s.Taxes, 1, ctry, sub.ProductType)
            IN  [price |-> sub.Price,
                 percentage |-> IF i = 0 THEN 0 ELSE s.Taxes[i].Percentage]]
    ELSE LET i == FirstApplicable(s.Taxes, 1, ctry, item.ProductType)
         IN  IF i = 0 THEN << >>
             ELSE << [price |-> item.Price, percentage |-> s.Taxes[i].Percentage] >>

\* The taxAmounts of one item (calculator.go:160-181)
TaxAmountsOf(s, ctry, item) ==
    IF item.FixedVAT # 0
    THEN << [price |-> item.Price, percentage |-> item.FixedVAT] >>
    ELSE IF ~s.nil /\ Len(item.TaxableItems) > 0
    THEN [k \in 1..Len(item.TaxableItems) |->
            LET sub == item.TaxableItems[k]
                i == FirstApplicable(s.Taxes, 1, ctry, sub.ProductType)
            IN  [price |-> sub.Price,
                 percentage |-> IF i = 0 THEN 0 ELSE s.Taxes[i].Percentage]]
    ELSE IF ~s.nil
    THEN LET i == FirstApplicable(s.Taxes, 1, ctry, item.ProductType)
         IN  IF i = 0 THEN << >>
             ELSE << [price |-> item.Price, percentage |-> s.Taxes[i].Percentage] >>
    ELSE << >>

\* The body of the tax loop for one tax amount whose price p has already been
\* replaced by its tax-exclusive price when includeTaxes (calculator.go:190-192)
AddTax(acc, p, percentage, includeTaxes) ==
    [Subtotal |-> IF includeTaxes THEN acc.Subtotal + p ELSE acc.Subtotal,
     Taxes |-> acc.Taxes + rint(F64MulDiv100(p, percentage))]

\* `for _, tax := range taxAmounts { ... }` from its k-th element on, acc
\* holding itemPrice.Subtotal and itemPrice.Taxes (calculator.go:187-193)
RECURSIVE TaxLoop(_, _, _, _)
TaxLoop(amounts, k, includeTaxes, acc) ==
    IF k > Len(amounts) THEN acc
    ELSE TaxLoop(amounts, k + 1, includeTaxes,
                 AddTax(acc,
                        IF includeTaxes
                        THEN rint(F64DivMul100(amounts[k].price,
                                               100 + amounts[k].percentage))
                        ELSE amounts[k].price,
                        amounts[k].percentage, includeTaxes))

\* itemPrice.Subtotal and itemPrice.Taxes after the tax loop
\* (calculator.go:158, 183-194)
TaxedOf(amounts, item, includeTaxes) ==
    IF Len(amounts) # 0
    THEN TaxLoop(amounts, 1, includeTaxes,
                 [Subtotal |-> IF includeTaxes THEN 0 ELSE item.Price, Taxes |-> 0])
    ELSE [Subtotal |-> item.Price, Taxes |-> 0]

\* calculateDiscount without the final clamp
calculateDiscountUnclamped(amountToDiscount, taxes, percentage, fixed, includeTaxes) ==
    (IF percentage > 0
     THEN rint(F64MulDiv100(IF includeTaxes THEN amountToDiscount + taxes
                            ELSE amountToDiscount, percentage))
     ELSE 0) + fixed

\* the clamp at the end of calculateDiscount (calculator.go:234-237)
ClampDiscount(discount, amountToDiscount) ==
    IF U64Less(amountToDiscount, discount) THEN amountToDiscount ELSE discount

\* calculateDiscount from the point where amountToDiscount includes the taxes
\* (calculator.go:228-237)
DiscountOn(amountToDiscount, percentage, fixed) ==
    ClampDiscount((IF percentage > 0
                   THEN rint(F64MulDiv100(amountToDiscount, percentage))
                   ELSE 0) + fixed,
                  amountToDiscount)

\* calculateDiscount (calculator.go:224-238)
calculateDiscount(amountToDiscount, taxes, percentage, fixed, includeTaxes) ==
    DiscountOn(IF includeTaxes THEN amountToDiscount + taxes ELSE amountToDiscount,
               percentage, fixed)

\* Coupon.ValidForType(t) && Coupon.ValidForProduct(sku) for a non-nil coupon
\* (calculator.go:195); a coupon is given by what its methods answer
CouponApplies(c, item) ==
    ~c.nil /\ item.ProductType \in c.ValidTypes /\ item.ProductSku \in c.ValidProducts

\* Whether the member discount d applies to item for a user with userClaims
\* (the condition of calculator.go:200)
MemberApplies(d, userClaims, item) ==
    /\ ~userClaims.nil
    /\ HasClaims(userClaims.m, d.Claims)
    /\ ValidForType(d, item.ProductType)

\* `for _, discount := range settings.MemberDiscounts { ... }` from its k-th
\* element on: what it adds to itemPrice.Discount (calculator.go:199-203)
RECURSIVE MemberLoop(_, _, _, _, _, _, _, _)
MemberLoop(ds, k, userClaims, cur, item, sub, taxes, inc) ==
    IF k > Len(ds) THEN 0
    ELSE (IF MemberApplies(ds[k], userClaims, item)
          THEN calculateDiscount(sub, taxes, ds[k].Percentage,
                                 FixedDiscount(ds[k], cur), inc)
          ELSE 0)
         + MemberLoop(ds, k + 1, userClaims, cur, item, sub, taxes, inc)

\* itemPrice.Discount: the coupon's discount, then the member discounts added
\* to it (calculator.go:195-204)
DiscountOf(s, userClaims, cur, c, item, taxed, includeTaxes) ==
    (IF CouponApplies(c, item)
     THEN calculateDiscount(taxed.Subtotal, taxed.Taxes, c.Percentage,
                            c.Fixed[cur], includeTaxes)
     ELSE 0)
    + (IF ~s.nil
       THEN MemberLoop(s.MemberDiscounts, 1, userClaims, cur, item,
                       taxed.Subtotal, taxed.Taxes, includeTaxes)
       ELSE 0)

\* `if itemPrice.Total < 0 { itemPrice.Total = 0 }` on a uint64
\* (calculator.go:207-209)
ClampTotal(total) == IF U64Less(total, 0) THEN 0 ELSE total

\* the ItemPrice once subtotal, taxes and discount are known
\* (calculator.go:157, 206-209)
ItemPriceFrom(item, taxed, discount) ==
    [Quantity |-> item.Quantity,
     Subtotal |-> taxed.Subtotal,
     Discount |-> discount,
     Taxes |-> taxed.Taxes,
     Total |-> ClampTotal(taxed.Subtotal - discount + taxed.Taxes)]

DiscountedItemPrice(s, userClaims, cur, c, item, taxed, includeTaxes) ==
    ItemPriceFrom(item, taxed,
                  DiscountOf(s, userClaims, cur, c, item, taxed, includeTaxes))

\* One iteration of the item loop up to the append: the ItemPrice of `item`
\* (calculator.go:155, 157-209)
ItemPriceOf(s, userClaims, ctry, cur, c, item) ==
    DiscountedItemPrice(s, userClaims, cur, c, item,
                        TaxedOf(TaxAmountsOf(s, ctry, item), item,
                                ~s.nil /\ s.PricesIncludeTaxes),
                        ~s.nil /\ s.PricesIncludeTaxes)

\* price after `price.Items = append(..)` and the four `+=`
\* (calculator.go:211-216)
AddItemPrice(pr, ip) ==
    [Items |-> Append(pr.Items, ip),
     Subtotal |-> pr.Subtotal + ip.Subtotal * ip.Quantity,
     Discount |-> pr.Discount + ip.Discount * ip.Quantity,
     Taxes |-> pr.Taxes + ip.Taxes * ip.Quantity,
     Total |-> pr.Total + ip.Total * ip.Quantity]

----------------------------------------------------------------------------
(* The inputs CalculatePrice is called with                                *)

ProductTypes == {"book", "ebook"}
Countries == {"DE", "US"}
Currencies == {"USD", "EUR"}

NilSettings == [nil |-> TRUE, PricesIncludeTaxes |-> FALSE,
                Taxes |-> << >>, MemberDiscounts |-> << >>]

\* reduced rate for e-books shipped to DE, then the general DE rate: for an
\* e-book both rules apply and the declared order decides
SiteTaxes ==
    << [Percentage |-> 7, ProductTypes |-> <<"ebook">>, Countries |-> <<"DE">>],
       [Percentage |-> 20, ProductTypes |-> << >>, Countries |-> <<"DE">>] >>

GoldClaims == {<<"plan", "gold">>}
SilverClaims == {<<"plan", "silver">>}

MemberDiscountLists ==
    { << [Claims |-> GoldClaims, Percentage |-> 10, FixedAmount |-> << >>,
          ProductTypes |-> <<"book">>] >>,
      << [Claims |-> GoldClaims, Percentage |-> 100, FixedAmount |-> << >>,
          ProductTypes |-> << >>],
         [Claims |-> {}, Percentage |-> 0,
          FixedAmount |-> << [Amount |-> <<"x">>, Currency |-> "EUR"],
                             [Amount |-> <<"5", ".", "0", "0">>, Currency |-> "USD"] >>,
          ProductTypes |-> << >>] >> }

SettingsSet ==
    {NilSettings} \cup
    { [nil |-> FALSE, PricesIncludeTaxes |-> inc, Taxes |-> SiteTaxes,
       MemberDiscounts |-> ds] : inc \in BOOLEAN, ds \in MemberDiscountLists }

ClaimsSet == { [nil |-> TRUE, m |-> {}],
               [nil |-> FALSE, m |-> GoldClaims],
               [nil |-> FALSE, m |-> SilverClaims] }

NilCoupon == [nil |-> TRUE, ValidTypes |-> {}, ValidProducts |-> {},
              Percentage |-> 0, Fixed |-> [c \in Currencies |-> 0]]

CouponSet ==
    { NilCoupon,
      [nil |-> FALSE, ValidTypes |-> {"book"},
       ValidProducts |-> {"book-1", "bundle-1"}, Percentage |-> 50,
       Fixed |-> [c \in Currencies |-> IF c = "USD" THEN 3 ELSE 0]] }

PlainItem(sku, p, type, vat, q) ==
    [ProductSku |-> sku, Price |-> p, ProductType |-> type, FixedVAT |-> vat,
     TaxableItems |-> << >>, Quantity |-> q]

BundleParts == << PlainItem("book-1", 600, "book", 0, 1),
                  PlainItem("ebook-1", 400, "ebook", 0, 1) >>

Quantities == 1..MaxQuantity

ItemSet ==
    UNION { { PlainItem("book-1", 1000, "book", 0, q),
              PlainItem("ebook-1", 69, "ebook", 0, q),
              [PlainItem("book-2", 1000, "book", 9, q) EXCEPT !.TaxableItems = BundleParts],
              [PlainItem("bundle-1", 1000, "book", 0, q) EXCEPT !.TaxableItems = BundleParts] }
          : q \in Quantities }

RECURSIVE SeqsUpTo(_, _)
SeqsUpTo(S, n) ==
    IF n = 0 THEN { << >> }
    ELSE LET shorter == SeqsUpTo(S, n - 1)
         IN  shorter \cup { Append(t, x) : t \in {u \in shorter : Len(u) = n - 1}, x \in S }

ZeroPrice == [Items |-> << >>, Subtotal |-> 0, Discount |-> 0, Taxes |-> 0, Total |-> 0]

NoArgs == [amountToDiscount |-> 0, taxes |-> 0, percentage |-> 0, fixed |-> 0,
           includeTaxes |-> FALSE]
NoRet == [done |-> FALSE, value |-> 0]

CalcStart ==
    /\ price = ZeroPrice
    /\ taxAmounts = << >>
    /\ idx = 0
    /\ calcPc = "loop"

DiscountIdle == dargs = NoArgs /\ dret = NoRet

Workers == 1..MaxLineItems
NoTx == [begun |-> FALSE, rollbacks |-> 0, commits |-> 0]
NoResp == [code |-> 0, err |-> 0]

OrderFresh ==
    /\ tx = NoTx
    /\ resp = NoResp
    /\ started = 0 /\ persisted = 0
    /\ sem = 0 /\ wg = 0
    /\ sharedErr = 0 /\ mutex = 0
    /\ wpc = [w \in Workers |-> "idle"]
    /\ recorded = {}
    /\ released = << >>

OrderIdle == pc = "idle" /\ nItems = 0 /\ OrderFresh

----------------------------------------------------------------------------
(* CalculatePrice as a state machine: one step per loop iteration           *)

\* One iteration of `for _, item := range items` (calculator.go:156-217)
CalcItem ==
    /\ calcPc = "loop"
    /\ idx < Len(items)
    /\ taxAmounts' = TaxAmountsOf(settings, country, items[idx + 1])
    /\ price' = AddItemPrice(price, ItemPriceOf(settings, jwtClaims, country, currency,
                                                coupon, items[idx + 1]))
    /\ idx' = idx + 1
    /\ UNCHANGED <<settings, jwtClaims, country, currency, coupon, items, calcPc>>
    /\ UNCHANGED discVars
    /\ UNCHANGED orderVars

\* The end of the loop: the total is recomputed and returned
\* (calculator.go:219-221)
CalcReturn ==
    /\ calcPc = "loop"
    /\ idx = Len(items)
    /\ price' = [price EXCEPT !.Total = price.Subtotal - price.Discount + price.Taxes]
    /\ calcPc' = "returned"
    /\ UNCHANGED <<settings, jwtClaims, country, currency, coupon, items, taxAmounts, idx>>
    /\ UNCHANGED discVars
    /\ UNCHANGED orderVars

\* calculateDiscount called directly (calculator.go:224-238)
CallCalculateDiscount ==
    /\ ~dret.done
    /\ dret' = [done |-> TRUE,
                value |-> calculateDiscount(dargs.amountToDiscount, dargs.taxes,
                                            dargs.percentage, dargs.fixed,
                                            dargs.includeTaxes)]
    /\ UNCHANGED dargs
    /\ UNCHANGED calcVars
    /\ UNCHANGED orderVars

Init ==
    /\ settings \in SettingsSet
    /\ jwtClaims \in ClaimsSet
    /\ country \in Countries
    /\ currency \in Currencies
    /\ coupon \in CouponSet
    /\ items \in SeqsUpTo(ItemSet, MaxItems)
    /\ CalcStart
    /\ DiscountIdle
    /\ OrderIdle

Next == CalcItem \/ CalcReturn

Spec == Init /\ [][Next]_vars

\* One plain item of price p under one unconstrained tax rule of percentage t,
\* no coupon, no claims, no member discounts
RoundPrices == (0..MaxPrice) \cup {1000}

InitRound ==
    /\ \E inc \in BOOLEAN, t \in 0..MaxTaxPercentage :
          settings = [nil |-> FALSE, PricesIncludeTaxes |-> inc,
                      Taxes |-> << [Percentage |-> t, ProductTypes |-> << >>,
                                    Countries |-> << >>] >>,
                      MemberDiscounts |-> << >>]
    /\ jwtClaims = [nil |-> TRUE, m |-> {}]
    /\ country = "DE"
    /\ currency = "USD"
    /\ coupon = NilCoupon
    /\ \E p \in RoundPrices : items = << PlainItem("book-1", p, "book", 0, 1) >>
    /\ CalcStart
    /\ DiscountIdle
    /\ OrderIdle

SpecRound == InitRound /\ [][Next]_vars

\* calculateDiscount on its own, over small arguments and the spec's example
DiscountBases == (0..MaxBase) \cup {100}
DiscountPercentages == {0, 1, 10, 50, 100, 150}

InitDiscount ==
    /\ dargs \in [amountToDiscount : DiscountBases, taxes : 0..MaxTaxes,
                   percentage : DiscountPercentages, fixed : 0..MaxFixed,
                   includeTaxes : BOOLEAN]
    /\ dret = NoRet
    /\ settings = NilSettings
    /\ jwtClaims = [nil |-> TRUE, m |-> {}]
    /\ country = "DE"
    /\ currency = "USD"
    /\ coupon = NilCoupon
    /\ items = << >>
    /\ price = ZeroPrice
    /\ taxAmounts = << >>
    /\ idx = 0
    /\ calcPc = "idle"
    /\ OrderIdle

NextDiscount == CallCalculateDiscount

SpecDiscount == InitDiscount /\ [][NextDiscount]_vars

----------------------------------------------------------------------------
(* api: OrderCreate, setUserIDFromToken, createLineItems, processAddress   *)

Rollback(t) == [t EXCEPT !.rollbacks = @ + 1]     \* tx.Rollback()
Commit(t) == [t EXCEPT !.commits = @ + 1]         \* tx.Commit()

\* the handler has written its response and returned
Return(code, err, t) ==
    /\ pc' = "returned"
    /\ resp' = [code |-> code, err |-> err]
    /\ tx' = t

CalcUntouched == UNCHANGED calcVars /\ UNCHANGED discVars
WorkersUntouched ==
    UNCHANGED <<nItems, started, persisted, sem, wg, sharedErr, mutex, wpc,
                recorded, released>>

\* The request body does not decode: 400 before any transaction exists
\* (part_000:186-192)
DecodeFails ==
    /\ pc = "start"
    /\ Return(400, 0, tx)
    /\ WorkersUntouched /\ CalcUntouched

\* The body decodes; the order is made and the transaction begun
\* (part_000:186-198)
Begin ==
    /\ pc = "start"
    /\ tx' = [tx EXCEPT !.begun = TRUE]
    /\ pc' = "setUser"
    /\ UNCHANGED resp
    /\ WorkersUntouched /\ CalcUntouched

TokenCases == {"noToken", "emptyID", "userFound", "userCreated", "dbError"}

\* setUserIDFromToken and the handler's test of its result
\* (part_000:200-204, 262-286)
SetUserIDFromToken ==
    /\ pc = "setUser"
    /\ \E c \in TokenCases :
          CASE c = "emptyID" -> Return(400, 0, Rollback(tx))
            [] c = "dbError" -> Return(500, 0, Rollback(tx))
            [] OTHER -> pc' = "lineItems" /\ UNCHANGED <<tx, resp>>
    /\ WorkersUntouched /\ CalcUntouched

\* a send that never blocks, as on a channel without a capacity limit
SendNeverBlocks == TRUE
\* `sem <- 1` can proceed: sem is not full (part_000:289, 295)
CanSend == sem < MaxConcurrentLookups

\* One iteration of the first loop of createLineItems: the line item is
\* appended, a slot of sem taken (blocking while sem is full), the WaitGroup
\* counted up and the worker started (part_000:292-310)
StartWorker ==
    /\ pc = "lineItems"
    /\ started < nItems
    /\ CanSend
    /\ sem' = sem + 1
    /\ wg' = wg + 1
    /\ started' = started + 1
    /\ wpc' = [wpc EXCEPT ![started + 1] = "check"]
    /\ UNCHANGED <<pc, tx, resp, nItems, persisted, sharedErr, mutex, recorded, released>>
    /\ CalcUntouched

\* wg.Wait() may return: the counter is 0 (part_000:312)
WaitMayReturn == wg = 0

\* wg.Wait() after the loop (part_000:312)
Wait ==
    /\ pc = "lineItems"
    /\ started = nItems
    /\ WaitMayReturn
    /\ pc' = "checkErr"
    /\ UNCHANGED <<tx, resp>>
    /\ WorkersUntouched /\ CalcUntouched

\* `if sharedErr.err != nil`: roll back and report it (part_000:314-317)
CheckSharedErr ==
    /\ pc = "checkErr"
    /\ IF sharedErr # 0
       THEN Return(500, sharedErr, Rollback(tx))
       ELSE pc' = "persist" /\ UNCHANGED <<tx, resp>>
    /\ WorkersUntouched /\ CalcUntouched

\* One iteration of the second loop: the sub-total is added up and the line
\* item created, which may fail (part_000:319-325)
PersistLineItem ==
    /\ pc = "persist"
    /\ persisted < nItems
    /\ \E ok \in BOOLEAN :
          IF ok
          THEN persisted' = persisted + 1 /\ UNCHANGED <<pc, tx, resp>>
          ELSE Return(500, 0, Rollback(tx)) /\ UNCHANGED persisted
    /\ UNCHANGED <<nItems, started, sem, wg, sharedErr, mutex, wpc, recorded, released>>
    /\ CalcUntouched

\* createLineItems returns nil (part_000:327, 206-209)
LineItemsDone ==
    /\ pc = "persist"
    /\ persisted = nItems
    /\ pc' = "shipping"
    /\ UNCHANGED <<tx, resp>>
    /\ WorkersUntouched /\ CalcUntouched

\* The write of worker v to sharedErr.err happens before the read of worker w
\* only through sem: the k-th receive happens before the (k + capacity)-th
\* send completes, and worker w is started after the w-th send.
WriteOrderedBefore(w) ==
    \E k \in 1..Len(released) : k <= w - MaxConcurrentLookups /\ released[k] \in recorded

\* `if sharedErr.err != nil { return }` in a worker: the read takes no lock,
\* so unless a write is ordered before it, it may still see nil after an error
\* has been recorded (part_000:302-305)
WorkerCheck(w) ==
    /\ wpc[w] = "check"
    /\ \E seesErr \in BOOLEAN :
          /\ seesErr => sharedErr # 0
          /\ ~seesErr => sharedErr = 0 \/ ~WriteOrderedBefore(w)
          /\ wpc' = [wpc EXCEPT ![w] = IF seesErr THEN "done" ELSE "process"]
    /\ UNCHANGED <<pc, tx, resp, nItems, started, persisted, sem, wg, sharedErr, mutex,
                   recorded, released>>
    /\ CalcUntouched

\* processLineItem returns, with an error or without (part_000:307, 357-381)
WorkerProcess(w) ==
    /\ wpc[w] = "process"
    /\ \E failed \in BOOLEAN :
          wpc' = [wpc EXCEPT ![w] = IF failed THEN "setError" ELSE "done"]
    /\ UNCHANGED <<pc, tx, resp, nItems, started, persisted, sem, wg, sharedErr, mutex,
                   recorded, released>>
    /\ CalcUntouched

\* e.mutex.Lock() in setError (part_000:55)
WorkerLock(w) ==
    /\ wpc[w] = "setError"
    /\ mutex = 0
    /\ mutex' = w
    /\ wpc' = [wpc EXCEPT ![w] = "locked"]
    /\ UNCHANGED <<pc, tx, resp, nItems, started, persisted, sem, wg, sharedErr,
                   recorded, released>>
    /\ CalcUntouched

\* e.err = err; e.mutex.Unlock() (part_000:56-57)
WorkerSetError(w) ==
    /\ wpc[w] = "locked"
    /\ sharedErr' = w
    /\ recorded' = recorded \cup {w}
    /\ mutex' = 0
    /\ wpc' = [wpc EXCEPT ![w] = "done"]
    /\ UNCHANGED <<pc, tx, resp, nItems, started, persisted, sem, wg, released>>
    /\ CalcUntouched

\* the deferred function, first half: wg.Done() (part_000:298-299)
WorkerDone(w) ==
    /\ wpc[w] = "done"
    /\ wg' = wg - 1
    /\ wpc' = [wpc EXCEPT ![w] = "release"]
    /\ UNCHANGED <<pc, tx, resp, nItems, started, persisted, sem, sharedErr, mutex,
                   recorded, released>>
    /\ CalcUntouched

\* the deferred function, second half: <-sem, after which the goroutine ends
\* (part_000:300-301)
WorkerRelease(w) ==
    /\ wpc[w] = "release"
    /\ sem' = sem - 1
    /\ released' = Append(released, w)
    /\ wpc' = [wpc EXCEPT ![w] = "exited"]
    /\ UNCHANGED <<pc, tx, resp, nItems, started, persisted, wg, sharedErr, mutex,
                   recorded>>
    /\ CalcUntouched

\* What processAddress can be called with and find:
\*   badID      id given, tx.First fails
\*   unowned    id given, the address has no user yet and is saved
\*   owned      id given, the address is the order's user's
\*   foreign    id given, the address is another user's
\*   absent     no id and no address
\*   valid      no id, a valid address, which is created
\*   invalid    no id, an address that fails Valid()
AddressCases == {"badID", "unowned", "owned", "foreign", "absent", "valid", "invalid"}

\* processAddress (part_000:330-355): whether it fails (having rolled back)
\* and whether the id it returns is empty
ProcessAddress(c) ==
    [failed |-> c \in {"badID", "foreign", "invalid"},
     emptyID |-> c \in {"badID", "foreign", "invalid", "absent"}]

\* The shipping address (part_000:211-220)
ProcessShipping ==
    /\ pc = "shipping"
    /\ \E c \in AddressCases :
          IF ProcessAddress(c).failed THEN Return(400, 0, Rollback(tx))
          ELSE IF ProcessAddress(c).emptyID THEN Return(400, 0, tx)
          ELSE pc' = "billing" /\ UNCHANGED <<tx, resp>>
    /\ WorkersUntouched /\ CalcUntouched

\* The billing address, which may be absent (part_000:222-231)
ProcessBilling ==
    /\ pc = "billing"
    /\ \E c \in AddressCases :
          IF ProcessAddress(c).failed THEN Return(400, 0, Rollback(tx))
          ELSE pc' = "vat" /\ UNCHANGED <<tx, resp>>
    /\ WorkersUntouched /\ CalcUntouched

VATCases == {"none", "lookupError", "notValid", "valid"}

\* The VAT number, when one is given (part_000:233-246)
VerifyVAT ==
    /\ pc = "vat"
    /\ \E c \in VATCases :
          CASE c = "lookupError" -> Return(500, 0, Rollback(tx))
            [] c = "notValid" -> Return(400, 0, Rollback(tx))
            [] OTHER -> pc' = "data" /\ UNCHANGED <<tx, resp>>
    /\ WorkersUntouched /\ CalcUntouched

\* The order metadata, when there is any (part_000:248-254)
UpdateOrderData ==
    /\ pc = "data"
    /\ \E c \in {"none", "bad", "ok"} :
          IF c = "bad" THEN Return(400, 0, Rollback(tx))
          ELSE pc' = "create" /\ UNCHANGED <<tx, resp>>
    /\ WorkersUntouched /\ CalcUntouched

\* tx.Create(order); tx.Commit(); sendJSON(w, 200, order) (part_000:256-259)
CreateAndCommit ==
    /\ pc = "create"
    /\ Return(200, 0, Commit(tx))
    /\ WorkersUntouched /\ CalcUntouched

InitOrder ==
    /\ pc = "start"
    /\ nItems \in 0..MaxLineItems
    /\ OrderFresh
    /\ settings = NilSettings
    /\ jwtClaims = [nil |-> TRUE, m |-> {}]
    /\ country = "DE"
    /\ currency = "USD"
    /\ coupon = NilCoupon
    /\ items = << >>
    /\ price = ZeroPrice
    /\ taxAmounts = << >>
    /\ idx = 0
    /\ calcPc = "idle"
    /\ DiscountIdle

NextOrder ==
    \/ DecodeFails \/ Begin \/ SetUserIDFromToken
    \/ StartWorker \/ Wait \/ CheckSharedErr \/ PersistLineItem \/ LineItemsDone
    \/ \E w \in Workers :
          \/ WorkerCheck(w) \/ WorkerProcess(w) \/ WorkerLock(w)
          \/ WorkerSetError(w) \/ WorkerDone(w) \/ WorkerRelease(w)
    \/ ProcessShipping \/ ProcessBilling \/ VerifyVAT \/ UpdateOrderData
    \/ CreateAndCommit

SpecOrder == InitOrder /\ [][NextOrder]_vars

----------------------------------------------------------------------------
(* What the claims are stated with: exact arithmetic on integers            *)

Min(a, b) == IF a <= b THEN a ELSE b
Abs(x) == IF x < 0 THEN -x ELSE x

\* n/d rounded to the nearest integer, halves to the even neighbour
RoundHalfEven(n, d) ==
    LET q == n \div d
        r == n % d
    IN  IF 2 * r > d \/ (2 * r = d /\ q % 2 = 1) THEN q + 1 ELSE q

\* min(B, round(B * percentage / 100) + fixed)
ClampedDiscount(B, percentage, fixed) ==
    Min(B, RoundHalfEven(B * percentage, 100) + fixed)

\* a rule applies iff each of its non-empty constraint sets contains the value
RuleApplies(t, ctry, productType) ==
    /\ t.ProductTypes # << >> => \E i \in DOMAIN t.ProductTypes : t.ProductTypes[i] = productType
    /\ t.Countries # << >> => \E i \in DOMAIN t.Countries : t.Countries[i] = ctry

SiteRules == IF settings.nil THEN << >> ELSE settings.Taxes
Matching(productType) ==
    {i \in DOMAIN SiteRules : RuleApplies(SiteRules[i], country, productType)}
\* the percentage of the first matching rule in declared order
FirstMatchPercentage(productType) ==
    SiteRules[CHOOSE i \in Matching(productType) :
                \A j \in Matching(productType) : i <= j].Percentage
NoRuleMatches(item) ==
    /\ Matching(item.ProductType) = {}
    /\ \A k \in DOMAIN item.TaxableItems : Matching(item.TaxableItems[k].ProductType) = {}

IncludeTaxes == ~settings.nil /\ settings.PricesIncludeTaxes
Priced == DOMAIN price.Items

----------------------------------------------------------------------------
(* C1 -- the order-level identity                                          *)

\* C1: the returned Price has Total = Subtotal - Discount + Taxes over the
\* non-negative integers (so Discount <= Subtotal + Taxes), and an empty item
\* list gives 0 in all four order-level fields.
C1_OrderIdentity ==
    calcPc = "returned" =>
        /\ price.Subtotal >= 0 /\ price.Discount >= 0
        /\ price.Taxes >= 0 /\ price.Total >= 0
        /\ price.Discount <= price.Subtotal + price.Taxes
        /\ price.Total = price.Subtotal - price.Discount + price.Taxes
        /\ items = << >> =>
              /\ price.Subtotal = 0 /\ price.Discount = 0
              /\ price.Taxes = 0 /\ price.Total = 0

----------------------------------------------------------------------------
(* C2 -- the per-item total                                                *)

\* C2: every ItemPrice has Total = Subtotal - Discount + Taxes when that is
\* non-negative and Total = 0 when Discount exceeds Subtotal + Taxes; the
\* unsigned subtraction never wraps around.
C2_ItemTotalClamped ==
    \A i \in Priced :
        price.Items[i].Total =
            IF price.Items[i].Discount <= price.Items[i].Subtotal + price.Items[i].Taxes
            THEN price.Items[i].Subtotal - price.Items[i].Discount + price.Items[i].Taxes
            ELSE 0

----------------------------------------------------------------------------
(* C3 -- calculateDiscount                                                 *)

DiscountableBase ==
    IF dargs.includeTaxes THEN dargs.amountToDiscount + dargs.taxes
    ELSE dargs.amountToDiscount

\* C3: calculateDiscount returns min(B, round(B * percentage / 100) + fixed)
\* with B the amount, plus the taxes when includeTaxes; so never more than B.
C3_DiscountIsClampedSum ==
    dret.done =>
        /\ dret.value = ClampedDiscount(DiscountableBase, dargs.percentage, dargs.fixed)
        /\ dret.value <= DiscountableBase

\* base 100 at 150 percent has been discounted, by 100
C3_Witness ==
    /\ dret.done
    /\ dargs.amountToDiscount = 100 /\ dargs.percentage = 150
    /\ dargs.fixed = 0 /\ ~dargs.includeTaxes
    /\ dret.value = 100

----------------------------------------------------------------------------
(* C4 -- nil settings                                                      *)

CouponDiscountOn(item, B) ==
    IF ~coupon.nil /\ item.ProductType \in coupon.ValidTypes
       /\ item.ProductSku \in coupon.ValidProducts
    THEN ClampedDiscount(B, coupon.Percentage, coupon.Fixed[currency])
    ELSE 0

\* C4 as stated: with nil settings every ItemPrice has Taxes = 0 and Subtotal
\* equal to the unit price, and no member discount contributes to Discount.
C4_NilSettingsNoTaxes ==
    settings.nil =>
        \A i \in Priced :
            /\ price.Items[i].Taxes = 0
            /\ price.Items[i].Subtotal = items[i].Price
            /\ price.Items[i].Discount = CouponDiscountOn(items[i], items[i].Price)

\* C4 as amended: with nil settings every ItemPrice has Subtotal equal to the
\* unit price and only the coupon in its Discount; Taxes is 0 for an item
\* without fixed VAT and round(price * FixedVAT / 100) for one with it.
C4_NilSettingsOnlyFixedVAT ==
    settings.nil =>
        \A i \in Priced :
            /\ price.Items[i].Taxes =
                  IF items[i].FixedVAT = 0 THEN 0
                  ELSE RoundHalfEven(items[i].Price * items[i].FixedVAT, 100)
            /\ price.Items[i].Subtotal = items[i].Price
            /\ price.Items[i].Discount = CouponDiscountOn(items[i], items[i].Price)

\* nil settings, a gold member, and both a fixed-VAT item and an item without
\* fixed VAT have been priced
C4_Witness ==
    /\ settings.nil /\ ~jwtClaims.nil /\ jwtClaims.m = GoldClaims
    /\ \E i \in Priced : items[i].FixedVAT # 0 /\ price.Items[i].Taxes > 0
    /\ \E i \in Priced : items[i].FixedVAT = 0 /\ ~coupon.nil
                         /\ price.Items[i].Discount > 0

----------------------------------------------------------------------------
(* C5 -- the taxable amounts                                               *)

LastItem == items[idx]

\* C5 as stated: fixed VAT gives the one pair (price, FixedVAT); otherwise
\* sub-items give one pair each with the first matching rule's percentage;
\* otherwise one pair for the item or none; and with no matching rule and no
\* fixed VAT the list is empty and Taxes = 0.
C5_TaxAmountsAsStated ==
    idx > 0 =>
        /\ LastItem.FixedVAT # 0 =>
              taxAmounts = << [price |-> LastItem.Price, percentage |-> LastItem.FixedVAT] >>
        /\ LastItem.FixedVAT = 0 /\ LastItem.TaxableItems # << >> =>
              /\ Len(taxAmounts) = Len(LastItem.TaxableItems)
              /\ \A k \in DOMAIN LastItem.TaxableItems :
                    Matching(LastItem.TaxableItems[k].ProductType) # {} =>
                        taxAmounts[k] =
                            [price |-> LastItem.TaxableItems[k].Price,
                             percentage |->
                                FirstMatchPercentage(LastItem.TaxableItems[k].ProductType)]
        /\ LastItem.FixedVAT = 0 /\ LastItem.TaxableItems = << >> =>
              taxAmounts =
                  IF Matching(LastItem.ProductType) = {} THEN << >>
                  ELSE << [price |-> LastItem.Price,
                           percentage |-> FirstMatchPercentage(LastItem.ProductType)] >>
        /\ LastItem.FixedVAT = 0 /\ NoRuleMatches(LastItem) =>
              taxAmounts = << >> /\ price.Items[idx].Taxes = 0

\* C5 as amended: the sub-item case needs non-nil settings (with nil settings
\* and no fixed VAT there is no pair at all), a sub-item no rule matches gets a
\* pair of percentage 0, and with no matching rule and no fixed VAT Taxes = 0
\* while the list is empty only for an item without sub-items or nil settings.
C5_TaxAmounts ==
    idx > 0 =>
        /\ LastItem.FixedVAT # 0 =>
              taxAmounts = << [price |-> LastItem.Price, percentage |-> LastItem.FixedVAT] >>
        /\ LastItem.FixedVAT = 0 /\ settings.nil => taxAmounts = << >>
        /\ LastItem.FixedVAT = 0 /\ ~settings.nil /\ LastItem.TaxableItems # << >> =>
              /\ Len(taxAmounts) = Len(LastItem.TaxableItems)
              /\ \A k \in DOMAIN LastItem.TaxableItems :
                    taxAmounts[k] =
                        [price |-> LastItem.TaxableItems[k].Price,
                         percentage |->
                            IF Matching(LastItem.TaxableItems[k].ProductType) = {} THEN 0
                            ELSE FirstMatchPercentage(LastItem.TaxableItems[k].ProductType)]
        /\ LastItem.FixedVAT = 0 /\ LastItem.TaxableItems = << >> =>
              taxAmounts =
                  IF Matching(LastItem.ProductType) = {} THEN << >>
                  ELSE << [price |-> LastItem.Price,
                           percentage |-> FirstMatchPercentage(LastItem.ProductType)] >>
        /\ LastItem.FixedVAT = 0 /\ NoRuleMatches(LastItem) =>
              /\ price.Items[idx].Taxes = 0
              /\ (LastItem.TaxableItems = << >> \/ settings.nil) => taxAmounts = << >>

\* a bundle shipped to DE has been resolved: the e-book part at the reduced
\* rate that is declared first, the book part at the general rate
C5_Witness ==
    /\ idx > 0 /\ ~settings.nil /\ country = "DE"
    /\ LastItem.FixedVAT = 0 /\ Len(LastItem.TaxableItems) = 2
    /\ taxAmounts = << [price |-> 600, percentage |-> 20],
                       [price |-> 400, percentage |-> 7] >>

----------------------------------------------------------------------------
(* C6 -- one item, one tax rule, no discount                               *)

P == items[1].Price
T == settings.Taxes[1].Percentage
S == price.Items[1].Subtotal

\* C6 as stated: tax-inclusive, Subtotal S = round(P * 100 / (100 + T)),
\* Taxes = round(S * T / 100) and round(S * (100 + T) / 100) is within 1 of P;
\* tax-exclusive, Subtotal = P and Taxes = round(P * T / 100).
C6_RoundTripAsStated ==
    calcPc = "returned" =>
        IF IncludeTaxes
        THEN /\ S = RoundHalfEven(100 * P, 100 + T)
             /\ price.Items[1].Taxes = RoundHalfEven(S * T, 100)
             /\ Abs(RoundHalfEven(S * (100 + T), 100) - P) <= 1
        ELSE /\ S = P
             /\ price.Items[1].Taxes = RoundHalfEven(P * T, 100)

\* P * 100 / (100 + T) lies exactly half-way between two integers
ExactHalf == (200 * P) % (100 + T) = 0 /\ (100 * P) % (100 + T) # 0

\* C6 as amended: tax-inclusive, S is an integer nearest to P * 100 / (100 + T),
\* the half-to-even one unless that quotient is an exact half (where the
\* float64 evaluation of P / (100 + T) * 100 decides between the two
\* neighbours); Taxes = round(S * T / 100); round(S * (100 + T) / 100) is
\* within 1 of P when T <= 200 and within (200 + T) / 200 of it in general;
\* tax-exclusive, Subtotal = P and Taxes = round(P * T / 100).
C6_RoundTrip ==
    calcPc = "returned" =>
        IF IncludeTaxes
        THEN /\ 2 * Abs(S * (100 + T) - 100 * P) <= 100 + T
             /\ ~ExactHalf => S = RoundHalfEven(100 * P, 100 + T)
             /\ price.Items[1].Taxes = RoundHalfEven(S * T, 100)
             /\ T <= 200 => Abs(RoundHalfEven(S * (100 + T), 100) - P) <= 1
             /\ 200 * Abs(RoundHalfEven(S * (100 + T), 100) - P) <= 200 + T
        ELSE /\ S = P
             /\ price.Items[1].Taxes = RoundHalfEven(P * T, 100)

\* price 1000 at 20 percent, tax-inclusive, came back as 833 + 167
C6_Witness ==
    /\ calcPc = "returned" /\ IncludeTaxes
    /\ P = 1000 /\ T = 20
    /\ S = 833 /\ price.Items[1].Taxes = 167 /\ price.Total = 1000

----------------------------------------------------------------------------
(* C7 -- member discounts                                                  *)

MemberDiscounts == IF settings.nil THEN << >> ELSE settings.MemberDiscounts

\* claims present, every required claim satisfied, product type accepted
Eligible(d, item) ==
    /\ ~jwtClaims.nil
    /\ \A kv \in d.Claims : kv \in jwtClaims.m
    /\ d.ProductTypes = << >> \/ \E i \in DOMAIN d.ProductTypes : d.ProductTypes[i] = item.ProductType

BaseOf(ip) == IF IncludeTaxes THEN ip.Subtotal + ip.Taxes ELSE ip.Subtotal

RECURSIVE SumOfEligible(_, _, _)
SumOfEligible(k, item, B) ==
    IF k > Len(MemberDiscounts) THEN 0
    ELSE (IF Eligible(MemberDiscounts[k], item)
          THEN ClampedDiscount(B, MemberDiscounts[k].Percentage,
                               FixedDiscount(MemberDiscounts[k], currency))
          ELSE 0)
         + SumOfEligible(k + 1, item, B)

\* C7: an item's Discount is the eligible coupon's discount plus the sum, over
\* exactly the member discounts whose claims are present and satisfied and
\* whose product types accept the item, of calculateDiscount on the same
\* (Subtotal, Taxes) base.
C7_MemberDiscountsStack ==
    \A i \in Priced :
        price.Items[i].Discount =
            CouponDiscountOn(items[i], BaseOf(price.Items[i]))
            + SumOfEligible(1, items[i], BaseOf(price.Items[i]))

\* a gold member's book: the coupon (50 percent + 3.00) and two member
\* discounts (100 percent; 5.00 fixed, 500 minor units) were all added up
C7_Witness ==
    \E i \in Priced :
        /\ ~coupon.nil /\ Len(MemberDiscounts) = 2
        /\ Eligible(MemberDiscounts[1], items[i]) /\ Eligible(MemberDiscounts[2], items[i])
        /\ ~IncludeTaxes /\ price.Items[i].Subtotal = 1000
        /\ price.Items[i].Discount = 503 + 1000 + 500

----------------------------------------------------------------------------
(* C8 -- the error createLineItems keeps                                   *)

\* C8: once an error has been set in sharedErr, a later failing worker never
\* overwrites it, so the error kept and reported is the first one recorded.
C8_FirstErrorKept == [][sharedErr # 0 => sharedErr' = sharedErr]_vars

----------------------------------------------------------------------------
(* C9 -- the bound on concurrent workers, and wg.Wait                      *)

Running == {w \in Workers : wpc[w] \notin {"idle", "exited"}}
AfterWait == pc \in {"checkErr", "persist"}

\* C9 as stated: never more than MaxConcurrentLookups workers have started and
\* not finished, and once wg.Wait has returned (so when the summation and the
\* persistence begin) no worker is still running.
C9_BoundedAndAllFinished ==
    /\ Cardinality(Running) <= MaxConcurrentLookups
    /\ AfterWait => Running = {}

\* C9 as amended: never more than MaxConcurrentLookups workers have started
\* and not finished, and once wg.Wait has returned every worker has been
\* started, is through with its line item and has called wg.Done; it may still
\* be about to receive from sem, the last statement of its deferred function.
C9_BoundedAndAllDone ==
    /\ Cardinality(Running) <= MaxConcurrentLookups
    /\ AfterWait =>
          /\ started = nItems
          /\ \A w \in Workers : wpc[w] \in {"idle", "release", "exited"}
          /\ \A w \in 1..nItems : wpc[w] # "idle"

\* more line items than slots: the handler is persisting line items while the
\* last worker has yet to give its slot back
C9_Witness ==
    /\ nItems > MaxConcurrentLookups
    /\ pc = "persist" /\ persisted > 0
    /\ wpc[nItems] = "release"

----------------------------------------------------------------------------
(* C10 -- the transaction is finished on every return                      *)

\* C10: once the transaction has been begun, the handler returns only after
\* finishing it exactly once: by a rollback and no commit on a failure, by a
\* commit and no rollback on success.
C10_TxFinishedOnce ==
    pc = "returned" /\ tx.begun =>
        /\ tx.rollbacks + tx.commits = 1
        /\ resp.code = 200 <=> tx.commits = 1

====
